---------------------------- MODULE Spec2Model ----------------------------
(***************************************************************************)
(* Model of src/src/crc32c.cpp: the CRC-32C lookup table and its           *)
(* generator, the table-driven software engine swCrc32c, the CPU feature   *)
(* query and the calculateCrc binding that dispatches between the          *)
(* software and the hardware engine.                                       *)
(*                                                                         *)
(* A uint32_t is a tuple of 4 bytes and a uint64_t a tuple of 8 bytes,     *)
(* least significant byte first, so that every operation keeps the width   *)
(* the C type gives it.                                                    *)
(***************************************************************************)
EXTENDS Integers, Sequences, FiniteSets, TLC

(***************************************************************************)
(* Fixed-width unsigned arithmetic                                         *)
(***************************************************************************)
Byte == 0..255

\* a ^ b on two bytes, bit by bit
XorByte(a, b) ==
    ((a + b) % 2)
  + 2   * (((a \div 2)   + (b \div 2))   % 2)
  + 4   * (((a \div 4)   + (b \div 4))   % 2)
  + 8   * (((a \div 8)   + (b \div 8))   % 2)
  + 16  * (((a \div 16)  + (b \div 16))  % 2)
  + 32  * (((a \div 32)  + (b \div 32))  % 2)
  + 64  * (((a \div 64)  + (b \div 64))  % 2)
  + 128 * (((a \div 128) + (b \div 128)) % 2)

\* x ^ y on two uint32_t
Xor32(x, y) ==
    <<XorByte(x[1], y[1]), XorByte(x[2], y[2]),
      XorByte(x[3], y[3]), XorByte(x[4], y[4])>>

\* x ^ y on two uint64_t
Xor64(x, y) ==
    <<XorByte(x[1], y[1]), XorByte(x[2], y[2]),
      XorByte(x[3], y[3]), XorByte(x[4], y[4]),
      XorByte(x[5], y[5]), XorByte(x[6], y[6]),
      XorByte(x[7], y[7]), XorByte(x[8], y[8])>>

\* x >> 1 on a uint32_t
Shr1(x) ==
    <<(x[1] \div 2) + 128 * (x[2] % 2), (x[2] \div 2) + 128 * (x[3] % 2),
      (x[3] \div 2) + 128 * (x[4] % 2), x[4] \div 2>>

\* x >> (8 * n) on a uint64_t
ShrBytes(x, n) == SubSeq(x, n + 1, 8) \o SubSeq(<<0, 0, 0, 0, 0, 0, 0, 0>>, 1, n)

\* x & 0xff on a uint64_t
AndFF(x) == <<x[1], 0, 0, 0, 0, 0, 0, 0>>

\* uint32_t -> uint64_t (zero extension) and uint64_t -> uint32_t (truncation)
ToU64(x) == <<x[1], x[2], x[3], x[4], 0, 0, 0, 0>>
ToU32(x) == <<x[1], x[2], x[3], x[4]>>

\* the word is below 2^(8 * n): its bytes above the lowest n are zero
Below(x, n) == \A k \in (n + 1)..Len(x) : x[k] = 0

\* bit n of a word
Bit(x, n) == (x[(n \div 8) + 1] \div (2 ^ (n % 8))) % 2

Zero32 == <<0, 0, 0, 0>>
Ones32 == <<255, 255, 255, 255>>

(***************************************************************************)
(* Hosts and the CPU feature query                                         *)
(***************************************************************************)
\* A host the addon is built for and runs on: whether it is an x86 CPU, the
\* ECX word its CPUID leaf 1 reports, the byte order of a uint64_t in memory,
\* and whether plain char is signed.
X86Sse42 ==
    [x86 |-> TRUE, ecx |-> <<255, 251, 250, 127>>, bigEndian |-> FALSE,
     charSigned |-> TRUE]
X86NoSse42 ==
    [x86 |-> TRUE, ecx |-> <<253, 227, 8, 0>>, bigEndian |-> FALSE,
     charSigned |-> TRUE]
BigEndianHost ==
    [x86 |-> FALSE, ecx |-> Zero32, bigEndian |-> TRUE, charSigned |-> FALSE]

Hosts == {X86Sse42, X86NoSse42, BigEndianHost}

\* the hosts on which the loading of the addon is followed store by store:
\* one of each byte order (the generator itself does not depend on the host)
LoadHosts == {X86Sse42, BigEndianHost}

\* the bit of reg[2] that isSSE42Available inspects
Sse42Bit == 20

\* cpuid(op, reg): the four registers; all zero where the query is unavailable
cpuid(op, h) ==
    IF h.x86 THEN <<Zero32, Zero32, h.ecx, Zero32>>
    ELSE <<Zero32, Zero32, Zero32, Zero32>>

\* reg[2] of the C array is the third register
isSSE42Available(h) == Bit(cpuid(1, h)[3], Sse42Bit) = 1

(***************************************************************************)
(* The lookup table and its generator                                      *)
(***************************************************************************)
\* 0xedb88320, the reversed polynomial of the zlib CRC-32, in the place of the
\* Castagnoli one
Crc32IeeePolynomial == <<32, 131, 184, 237>>

\* 0x82f63b78
CRC32C_POLYNOMIAL == <<120, 59, 246, 130>>

\* static uint32_t crc32cTable[8][256], zero-initialised
ZeroTable == [j \in 0..7 |-> [i \in 0..255 |-> Zero32]]

\* crc = crc & 1 ? (crc >> 1) ^ CRC32C_POLYNOMIAL : crc >> 1
PolyStep(crc) ==
    IF crc[1] % 2 = 1 THEN Xor32(Shr1(crc), CRC32C_POLYNOMIAL) ELSE Shr1(crc)

\* the first loop's body up to its store: crc = i, then the eight steps
ByteRemainder(i) ==
    PolyStep(PolyStep(PolyStep(PolyStep(
    PolyStep(PolyStep(PolyStep(PolyStep(<<i, 0, 0, 0>>))))))))

\* crc = crc32cTable[0][crc & 0xff] ^ (crc >> 8), on uint32_t
SliceStep(tbl, crc) == Xor32(tbl[0][crc[1]], <<crc[2], crc[3], crc[4], 0>>)

\* The generator's position: which loop it is in, i, j and the local crc.
GenIdle == [loop |-> 0, i |-> 0, j |-> 0, crc |-> Zero32]
GenStart == [loop |-> 1, i |-> 0, j |-> 0, crc |-> Zero32]

\* One store of initCrcTable, with the loop control that leads to it and
\* follows it: the generator's next position and the table after the store.
GenStep(g, tbl) ==
    IF g.loop = 1
    THEN LET crc == ByteRemainder(g.i)
         IN  [tbl |-> [tbl EXCEPT ![0][g.i] = crc],
              gen |-> IF g.i + 1 < 256
                      THEN [loop |-> 1, i |-> g.i + 1, j |-> 0, crc |-> crc]
                      ELSE [loop |-> 2, i |-> 0, j |-> 1, crc |-> crc]]
    ELSE LET crc0 == IF g.j = 1 THEN tbl[0][g.i] ELSE g.crc
             crc == SliceStep(tbl, crc0)
         IN  [tbl |-> [tbl EXCEPT ![g.j][g.i] = crc],
              gen |-> IF g.j + 1 < 8
                      THEN [loop |-> 2, i |-> g.i, j |-> g.j + 1, crc |-> crc]
                      ELSE IF g.i + 1 < 256
                      THEN [loop |-> 2, i |-> g.i + 1, j |-> 1, crc |-> crc]
                      ELSE GenIdle]

\* The second loop's inner loop for one i: the table's column i, slice by slice
RECURSIVE Column(_, _, _, _)
Column(tbl, col, crc, j) ==
    IF j = 8 THEN col
    ELSE LET c == SliceStep(tbl, crc)
         IN  Column(tbl, [col EXCEPT ![j] = c], c, j + 1)

\* initCrcTable() run from its first statement to its return on table tbl
initCrcTable(tbl) ==
    LET t1 == [tbl EXCEPT ![0] = [i \in 0..255 |-> ByteRemainder(i)]]
        cols == [i \in 0..255 |->
                    Column(t1, [j \in 0..7 |-> t1[j][i]], t1[0][i], 1)]
    IN  [j \in 0..7 |-> [i \in 0..255 |-> cols[i][j]]]

\* the table once init() has returned
BuiltTable == initCrcTable(ZeroTable)

(***************************************************************************)
(* The software engine                                                     *)
(***************************************************************************)
\* *next converted for the XOR with the uint64_t crc: a plain char is
\* promoted to int and then widened, so a negative char is sign-extended.
CharTo64(b, h) ==
    IF h.charSigned /\ b >= 128
    THEN <<b, 255, 255, 255, 255, 255, 255, 255>>
    ELSE <<b, 0, 0, 0, 0, 0, 0, 0>>

\* *(uint64_t *) next: the 8 bytes at offset off (from 0), in host byte order
Read64(buf, off, h) ==
    IF h.bigEndian
    THEN [k \in 1..8 |-> buf[off + 9 - k]]
    ELSE [k \in 1..8 |-> buf[off + k]]

\* crc32cTable[j][w], w the index expression as the uint64_t it is
Lookup(tbl, j, w) == tbl[j][w[1]]

\* the index without its mask: crc ^ *next++
ByteIndexUnmasked(crc, b, h) == Xor64(crc, CharTo64(b, h))

\* the index of the byte loops: (crc ^ *next++) & 0xff
ByteIndex(crc, b, h) == AndFF(Xor64(crc, CharTo64(b, h)))

\* crc = crc32cTable[0][(crc ^ *next++) & 0xff] ^ (crc >> 8)
ByteStep(tbl, crc, b, h) ==
    Xor64(ToU64(Lookup(tbl, 0, ByteIndex(crc, b, h))), ShrBytes(crc, 1))

\* the eight indices of the bulk loop, (crc >> 0) & 0xff first and the
\* unmasked crc >> 56 last, crc being the accumulator after crc ^= word
BulkIndices(c) ==
    <<AndFF(ShrBytes(c, 0)), AndFF(ShrBytes(c, 1)), AndFF(ShrBytes(c, 2)),
      AndFF(ShrBytes(c, 3)), AndFF(ShrBytes(c, 4)), AndFF(ShrBytes(c, 5)),
      AndFF(ShrBytes(c, 6)), ShrBytes(c, 7)>>

\* the slices taken in the opposite order: crc32cTable[0] for the lowest byte
BulkStepReversed(tbl, crc, word) ==
    LET ix == BulkIndices(Xor64(crc, word))
    IN  ToU64(
          Xor32(Xor32(Xor32(Lookup(tbl, 0, ix[1]), Lookup(tbl, 1, ix[2])),
                      Xor32(Lookup(tbl, 2, ix[3]), Lookup(tbl, 3, ix[4]))),
                Xor32(Xor32(Lookup(tbl, 4, ix[5]), Lookup(tbl, 5, ix[6])),
                      Xor32(Lookup(tbl, 6, ix[7]), Lookup(tbl, 7, ix[8])))))

\* crc ^= word; crc = crc32cTable[7][..] ^ ... ^ crc32cTable[0][crc >> 56]
BulkStep(tbl, crc, word) ==
    LET ix == BulkIndices(Xor64(crc, word))
    IN  ToU64(
          Xor32(Xor32(Xor32(Lookup(tbl, 7, ix[1]), Lookup(tbl, 6, ix[2])),
                      Xor32(Lookup(tbl, 5, ix[3]), Lookup(tbl, 4, ix[4]))),
                Xor32(Xor32(Lookup(tbl, 3, ix[5]), Lookup(tbl, 2, ix[6])),
                      Xor32(Lookup(tbl, 1, ix[7]), Lookup(tbl, 0, ix[8])))))

\* crc ^ 0xFFFFFFFF on the uint64_t accumulator
Complement(crc) == Xor64(crc, ToU64(Ones32))

\* an empty buffer answered with 0 whatever the initial CRC is
SwEnterZero(initialCrc, n) ==
    IF n = 0
    THEN [pc |-> "done", next |-> 0, len |-> 0, crc |-> ToU64(Zero32)]
    ELSE [pc |-> "lead", next |-> 0, len |-> n,
          crc |-> Xor64(ToU64(initialCrc), ToU64(Ones32))]

\* swCrc32c from its entry to the first loop test: the position is the loop
\* the engine is in ("done" once it has returned), next the offset of the
\* next byte from buf, len the bytes left and crc the accumulator.
SwEnter(initialCrc, n) ==
    IF n = 0
    THEN [pc |-> "done", next |-> 0, len |-> 0, crc |-> ToU64(initialCrc)]
    ELSE [pc |-> "lead", next |-> 0, len |-> n,
          crc |-> Complement(ToU64(initialCrc))]

\* which loop body runs next from position s ("ret": none, the final XOR)
SwBody(s, addr) ==
    IF s.pc = "lead" /\ s.len # 0 /\ (addr + s.next) % 8 # 0 THEN "lead"
    ELSE IF s.pc \in {"lead", "bulk"} /\ s.len >= 8 THEN "bulk"
    ELSE IF s.len # 0 THEN "tail"
    ELSE "ret"

\* One loop iteration of swCrc32c (or its final XOR and return) from s, on
\* the buffer buf at address addr (modulo 8)
SwStep(s, buf, addr, tbl, h) ==
    LET body == SwBody(s, addr)
    IN  IF body = "bulk"
        THEN [pc |-> "bulk", next |-> s.next + 8, len |-> s.len - 8,
              crc |-> BulkStep(tbl, s.crc, Read64(buf, s.next, h))]
        ELSE IF body = "ret"
        THEN [pc |-> "done", next |-> s.next, len |-> s.len,
              crc |-> Complement(s.crc)]
        ELSE [pc |-> body, next |-> s.next + 1, len |-> s.len - 1,
              crc |-> ByteStep(tbl, s.crc, buf[s.next + 1], h)]

\* the offsets of buf that the step from s reads
SwReads(s, addr) ==
    LET body == SwBody(s, addr)
    IN  IF body = "bulk" THEN [k \in 1..8 |-> s.next + k - 1]
        ELSE IF body = "ret" THEN <<>>
        ELSE <<s.next>>

\* the table indices that the step from s uses
SwIndices(s, buf, addr, h) ==
    LET body == SwBody(s, addr)
    IN  IF body = "bulk"
        THEN BulkIndices(Xor64(s.crc, Read64(buf, s.next, h)))
        ELSE IF body = "ret" THEN <<>>
        ELSE <<ByteIndex(s.crc, buf[s.next + 1], h)>>

RECURSIVE SwRun(_, _, _, _, _)
SwRun(s, buf, addr, tbl, h) ==
    IF s.pc = "done" THEN s
    ELSE SwRun(SwStep(s, buf, addr, tbl, h), buf, addr, tbl, h)

\* swCrc32c(initialCrc, buf, len) run to its return, buf at address addr
swCrc32c(initialCrc, buf, addr, tbl, h) ==
    ToU32(SwRun(SwEnter(initialCrc, Len(buf)), buf, addr, tbl, h).crc)

(***************************************************************************)
(* The hardware engine (crc32c_sse42.cpp, modelled from the specification) *)
(***************************************************************************)
\* the polynomial of the CRC32 instruction, 0x11EDC6F41, bit-reflected
Crc32InsnPolynomial == <<120, 59, 246, 130>>

\* one bit of the instruction's reduction
InsnBit(crc) ==
    IF crc[1] % 2 = 1 THEN Xor32(Shr1(crc), Crc32InsnPolynomial)
    ELSE Shr1(crc)

\* the CRC32 instruction on one source byte: the byte is XORed into the low
\* byte of the accumulator, which is then reduced bit by bit
Crc32Insn8(crc, b) ==
    InsnBit(InsnBit(InsnBit(InsnBit(
    InsnBit(InsnBit(InsnBit(InsnBit(
        Xor32(crc, <<b, 0, 0, 0>>)))))))))

\* the CRC32 instruction on a chunk of 8, 4, 2 or 1 bytes, which on x86 are
\* the chunk's bytes from its lowest address on; st is the accumulator and
\* the bytes of the chunk still to fold
RECURSIVE Crc32Fold(_)
Crc32Fold(st) ==
    IF st.rest = <<>> THEN st.crc
    ELSE Crc32Fold([crc |-> Crc32Insn8(st.crc, Head(st.rest)),
                    rest |-> Tail(st.rest)])

Crc32Insn(crc, chunk) == Crc32Fold([crc |-> crc, rest |-> chunk])

\* the largest of the chunk sizes 8, 4, 2, 1 that n bytes allow
ChunkSize(n) == IF n >= 8 THEN 8 ELSE IF n >= 4 THEN 4 ELSE IF n >= 2 THEN 2 ELSE 1

\* the chunk loop: st is the accumulator and the bytes not yet consumed
RECURSIVE HwFold(_)
HwFold(st) ==
    IF st.rest = <<>> THEN st.crc
    ELSE LET n == ChunkSize(Len(st.rest))
         IN  HwFold([crc |-> Crc32Insn(st.crc, SubSeq(st.rest, 1, n)),
                     rest |-> SubSeq(st.rest, n + 1, Len(st.rest))])

\* hwCrc32c(initialCrc, buf, len) on a CPU that has the instruction
hwCrc32c(initialCrc, buf) ==
    IF buf = <<>> THEN initialCrc
    ELSE Xor32(HwFold([crc |-> Xor32(initialCrc, Ones32), rest |-> buf]), Ones32)

\* whether the CPU executes the CRC32 instruction: the SSE 4.2 feature that
\* CPUID reports in bit 20 of ECX; elsewhere the instruction is illegal
CpuHasCrc32(h) == h.x86 /\ Bit(h.ecx, Sse42Bit) = 1

(***************************************************************************)
(* JavaScript values, as far as calculateCrc inspects them                 *)
(***************************************************************************)
\* type is the value's JavaScript type; b the value of a boolean; u32 says
\* whether a number is an integer in 0..2^32-1, and bytes is then its value
\* (otherwise bytes is the number's decimal text); for a string bytes is its
\* UTF-8 encoding and for a Buffer its contents.  addr is the address
\* (modulo 8) of a Buffer's data, and for the other values the address at
\* which String::Utf8Value places the text when the value is converted.
JsValue(t, bv, u, bs, a) ==
    [type |-> t, b |-> bv, u32 |-> u, bytes |-> bs, addr |-> a]

JsUndefined(a) == JsValue("undefined", FALSE, FALSE, <<>>, a)
JsNull(a) == JsValue("null", FALSE, FALSE, <<>>, a)
JsBoolean(v, a) == JsValue("boolean", v, FALSE, <<>>, a)
JsUint32(w, a) == JsValue("number", FALSE, TRUE, w, a)
JsNumber(text, a) == JsValue("number", FALSE, FALSE, text, a)
JsString(utf8, a) == JsValue("string", FALSE, FALSE, utf8, a)
JsBuffer(data, a) == JsValue("buffer", FALSE, FALSE, data, a)
JsObject == JsValue("object", FALSE, FALSE, <<>>, 0)

\* info[i]: undefined at and beyond info.Length()
Arg(info, i) == IF i < Len(info) THEN info[i + 1] ELSE JsUndefined(0)

IsBoolean(v) == v.type = "boolean"
IsUint32(v) == v.type = "number" /\ v.u32
IsObject(v) == v.type \in {"object", "buffer"}
HasInstance(v) == v.type = "buffer"

\* w / 10 and w % 10 on a uint32_t, by long division from the top byte
DivMod10(w) ==
    LET c4 == w[4]
        c3 == (c4 % 10) * 256 + w[3]
        c2 == (c3 % 10) * 256 + w[2]
        c1 == (c2 % 10) * 256 + w[1]
    IN  [quot |-> <<c1 \div 10, c2 \div 10, c3 \div 10, c4 \div 10>>,
         rem |-> c1 % 10]

RECURSIVE DecimalDigits(_)
DecimalDigits(w) ==
    IF w = Zero32 THEN <<>>
    ELSE DecimalDigits(DivMod10(w).quot) \o <<48 + DivMod10(w).rem>>

\* the UTF-8 text of ToString() on a value that is neither Buffer nor object
Utf8Value(v) ==
    CASE v.type = "string" -> v.bytes
      [] v.type = "undefined" -> <<117, 110, 100, 101, 102, 105, 110, 101, 100>>
      [] v.type = "null" -> <<110, 117, 108, 108>>
      [] v.type = "boolean" ->
            IF v.b THEN <<116, 114, 117, 101>> ELSE <<102, 97, 108, 115, 101>>
      [] v.type = "number" ->
            IF ~v.u32 THEN v.bytes
            ELSE IF v.bytes = Zero32 THEN <<48>> ELSE DecimalDigits(v.bytes)

(***************************************************************************)
(* calculateCrc's argument handling                                        *)
(***************************************************************************)
\* The outcome of the argument checks on info: the TypeError thrown ("" when
\* none is), and the flag, the initial CRC and the data handed to the engine.
Throw(msg) ==
    [error |-> msg, useHardwareCrc |-> FALSE, initCrc |-> Zero32,
     buf |-> <<>>, addr |-> 0]

CheckArgs(info) ==
    IF Len(info) > 3 THEN Throw("Invalid number of arguments!")
    ELSE IF ~IsBoolean(Arg(info, 0))
    THEN Throw("useHardwareCrc isn't a boolean value as expected!")
    ELSE IF Len(info) > 2 /\ ~IsUint32(Arg(info, 2))
    THEN Throw("Initial CRC-32C is not an integer value as expected!")
    ELSE LET initCrc0 == IF Len(info) > 2 THEN Arg(info, 2).bytes ELSE Zero32
             data == Arg(info, 1)
         IN  IF HasInstance(data)
             THEN [error |-> "", useHardwareCrc |-> Arg(info, 0).b,
                   initCrc |-> initCrc0, buf |-> data.bytes,
                   addr |-> data.addr]
             ELSE IF IsObject(data)
             THEN Throw("Cannot compute CRC-32C for objects!")
             ELSE [error |-> "", useHardwareCrc |-> Arg(info, 0).b,
                   initCrc |-> initCrc0, buf |-> Utf8Value(data),
                   addr |-> data.addr]

(***************************************************************************)
(* State                                                                   *)
(***************************************************************************)
VARIABLES
    host,           \* the host the process runs on
    crc32cTable,    \* static uint32_t crc32cTable[8][256]
    gen,            \* the position of a running initCrcTable (GenIdle: none)
    loading,        \* an init() call is between its entry and its return
    exported,       \* init() has set the two methods on exports
    pc,             \* "idle", inside swCrc32c ("lead", "bulk", "tail"),
                    \* "done", "thrown", or "fault" (illegal instruction)
    info,           \* the arguments of the calculateCrc call
    useHardwareCrc, \* calculateCrc's local
    initCrc,        \* calculateCrc's local
    buf,            \* the data handed to the engine
    addr,           \* the address of buf modulo 8
    next,           \* swCrc32c: offset of next from buf
    len,            \* swCrc32c: the bytes left
    crc,            \* swCrc32c: the uint64_t accumulator
    retval,         \* the value set on info.GetReturnValue() (<<>>: none)
    error,          \* the message of the TypeError thrown ("": none)
    engine,         \* history: the engine the call invoked
    reads,          \* history: the offsets of buf read, in order
    idx,            \* history: the table indices of the latest iteration
    lookups,        \* history: the number of table reads of the call
    hwSupport,      \* caller: what isHardwareCrcSupported has returned
    chain           \* caller: the segments it is feeding one after the other

tableVars == <<crc32cTable, gen, loading, exported>>
callVars ==
    <<pc, info, useHardwareCrc, initCrc, buf, addr, next, len, crc, retval,
      error, engine, reads, idx, lookups>>
vars == <<host, tableVars, callVars, hwSupport, chain>>

NoChain == [pat |-> "", off |-> 0, seg |-> 0, crc |-> <<>>]

NoCall ==
    /\ pc = "idle"
    /\ info = <<>>
    /\ useHardwareCrc = FALSE
    /\ initCrc = Zero32
    /\ buf = <<>>
    /\ addr = 0
    /\ next = 0
    /\ len = 0
    /\ crc = ToU64(Zero32)
    /\ retval = <<>>
    /\ error = ""
    /\ engine = "none"
    /\ reads = <<>>
    /\ idx = <<>>
    /\ lookups = 0

\* the process as node starts it: the static table zeroed, the addon not loaded
InitLoad ==
    /\ host \in LoadHosts
    /\ crc32cTable = ZeroTable
    /\ gen = GenIdle
    /\ loading = FALSE
    /\ exported = FALSE
    /\ NoCall
    /\ hwSupport = "unknown"
    /\ chain = NoChain

\* the process once init() has returned
Init ==
    /\ host \in Hosts
    /\ crc32cTable = initCrcTable(ZeroTable)
    /\ gen = GenIdle
    /\ loading = FALSE
    /\ exported = TRUE
    /\ NoCall
    /\ hwSupport = "unknown"
    /\ chain = NoChain

(***************************************************************************)
(* Module initialisation                                                   *)
(***************************************************************************)
\* init() is entered and calls initCrcTable().  Node runs init() when the
\* addon is loaded, and again when it is loaded into a further context.
init ==
    /\ ~loading
    /\ loading' = TRUE
    /\ gen' = GenStart
    /\ UNCHANGED <<host, crc32cTable, exported, callVars, hwSupport, chain>>

\* one store of initCrcTable()
initCrcTableStep ==
    /\ gen.loop # 0
    /\ LET r == GenStep(gen, crc32cTable)
       IN  /\ crc32cTable' = r.tbl
           /\ gen' = r.gen
    /\ UNCHANGED <<host, loading, exported, callVars, hwSupport, chain>>

\* the SetMethod calls placed before the initCrcTable() call
InitMayExportEarly(g) == TRUE

\* init() goes on to its SetMethod calls once initCrcTable() has returned
InitMayExport(g) == g = GenIdle

\* the two Nan::SetMethod calls and the return of init()
initExports ==
    /\ loading
    /\ InitMayExport(gen)
    /\ exported' = TRUE
    /\ loading' = FALSE
    /\ UNCHANGED <<host, crc32cTable, gen, callVars, hwSupport, chain>>

(***************************************************************************)
(* The exported methods                                                    *)
(***************************************************************************)
\* isHardwareCrcSupported(): returns isSSE42Available() to the caller
isHardwareCrcSupported ==
    /\ exported
    /\ pc = "idle"
    /\ hwSupport' = IF isSSE42Available(host) THEN "yes" ELSE "no"
    /\ UNCHANGED <<host, tableVars, callVars, chain>>

\* calculateCrc(args...) from its entry to its return, to its throw, or into
\* the first loop test of swCrc32c
calculateCrc(args) ==
    /\ exported
    /\ pc = "idle"
    /\ LET d == CheckArgs(args)
           s == SwEnter(d.initCrc, Len(d.buf))
           sw == d.error = "" /\ ~d.useHardwareCrc
       IN  /\ info' = args
           /\ error' = d.error
           /\ useHardwareCrc' = d.useHardwareCrc
           /\ initCrc' = d.initCrc
           /\ buf' = d.buf
           /\ addr' = d.addr
           /\ engine' = IF d.error # "" THEN "none"
                        ELSE IF d.useHardwareCrc THEN "hw" ELSE "sw"
           /\ pc' = IF d.error # "" THEN "thrown"
                    ELSE IF ~d.useHardwareCrc THEN s.pc
                    ELSE IF CpuHasCrc32(host) THEN "done" ELSE "fault"
           \* with no argument the return value is set to 0 before the
           \* flag check throws
           /\ retval' = IF d.error # ""
                        THEN (IF Len(args) < 1 THEN Zero32 ELSE <<>>)
                        ELSE IF ~d.useHardwareCrc
                        THEN (IF s.pc = "done" THEN ToU32(s.crc) ELSE <<>>)
                        ELSE IF CpuHasCrc32(host)
                        THEN hwCrc32c(d.initCrc, d.buf)
                        ELSE <<>>
           /\ next' = IF sw THEN s.next ELSE 0
           /\ len' = IF sw THEN s.len ELSE 0
           /\ crc' = IF sw THEN s.crc ELSE ToU64(Zero32)
    /\ reads' = <<>>
    /\ idx' = <<>>
    /\ lookups' = 0
    /\ UNCHANGED <<host, tableVars, hwSupport>>

\* one loop iteration of swCrc32c, or its final XOR, its return and the
\* return of calculateCrc with the value
swCrc32cStep ==
    /\ pc \in {"lead", "bulk", "tail"}
    /\ LET s == [pc |-> pc, next |-> next, len |-> len, crc |-> crc]
           t == SwStep(s, buf, addr, crc32cTable, host)
       IN  /\ pc' = t.pc
           /\ next' = t.next
           /\ len' = t.len
           /\ crc' = t.crc
           /\ retval' = IF t.pc = "done" THEN ToU32(t.crc) ELSE <<>>
           /\ reads' = reads \o SwReads(s, addr)
           /\ idx' = SwIndices(s, buf, addr, host)
           /\ lookups' = lookups + Len(SwIndices(s, buf, addr, host))
    /\ UNCHANGED <<host, tableVars, info, useHardwareCrc, initCrc, buf, addr,
                   error, engine, hwSupport, chain>>

\* the caller takes the result (or the exception); after the first of two
\* segments it keeps the checksum to pass it as the next initial value
Return ==
    /\ pc \in {"done", "thrown"}
    /\ chain' = IF chain.seg = 1 /\ pc = "done"
                THEN [chain EXCEPT !.off = Len(buf), !.crc = retval]
                ELSE NoChain
    /\ pc' = "idle"
    /\ info' = <<>>
    /\ useHardwareCrc' = FALSE
    /\ initCrc' = Zero32
    /\ buf' = <<>>
    /\ addr' = 0
    /\ next' = 0
    /\ len' = 0
    /\ crc' = ToU64(Zero32)
    /\ retval' = <<>>
    /\ error' = ""
    /\ engine' = "none"
    /\ reads' = <<>>
    /\ idx' = <<>>
    /\ lookups' = 0
    /\ UNCHANGED <<host, tableVars, hwSupport>>

(***************************************************************************)
(* Callers                                                                 *)
(***************************************************************************)
\* the longest buffer of a call
MaxLen == 12

Patterns == {"digits", "mixed"}

\* byte i (from 0) of a pattern: "123456789" repeated, or bytes that mix
\* 0xFF, 0x00 and values on both sides of 0x80
Pattern(p, i) ==
    IF p = "digits" THEN 49 + (i % 9) ELSE (255 + 171 * i) % 256

Slice(p, off, n) == [k \in 1..n |-> Pattern(p, off + k - 1)]

\* a call on a Buffer, with the initial CRC omitted or 0xFFFFFFFF, by a
\* caller that is not between two segments
FreshCall ==
    /\ chain = NoChain
    /\ \E p \in Patterns, n \in 0..MaxLen, a \in 0..7, hw \in BOOLEAN,
          ini \in {<<>>, Ones32} :
        /\ calculateCrc(<<JsBoolean(hw, 0), JsBuffer(Slice(p, 0, n), a)>>
                        \o (IF ini = <<>> THEN <<>> ELSE <<JsUint32(ini, 0)>>))
        /\ chain' = IF ~hw /\ ini = <<>>
                    THEN [pat |-> p, off |-> 0, seg |-> 1, crc |-> <<>>]
                    ELSE NoChain

\* the second segment: the bytes that follow the first in its pattern, with
\* the first call's result as the initial CRC
ChainedCall ==
    /\ chain.seg = 1
    /\ chain.crc # <<>>
    /\ \E m \in 0..(MaxLen - chain.off), a \in 0..7 :
        calculateCrc(<<JsBoolean(FALSE, 0),
                       JsBuffer(Slice(chain.pat, chain.off, m), a),
                       JsUint32(chain.crc, 0)>>)
    /\ chain' = [chain EXCEPT !.seg = 2]

Next == FreshCall \/ ChainedCall \/ swCrc32cStep \/ Return

Spec == Init /\ [][Next]_vars

(***************************************************************************)
(* Callers that vary the arguments, and query the CPU                      *)
(***************************************************************************)
\* "123456789"
Digits9 == Slice("digits", 0, 9)

\* the argument lists of the calls: every shape the checks tell apart
DispatchArgs ==
    << <<>>,
       <<JsBoolean(FALSE, 0)>>,
       <<JsBoolean(TRUE, 0)>>,
       <<JsBoolean(FALSE, 3), JsUndefined(5)>>,
       <<JsString(<<116, 114, 117, 101>>, 0), JsBuffer(Digits9, 0)>>,
       <<JsUint32(<<1, 0, 0, 0>>, 0), JsBuffer(Digits9, 0)>>,
       <<JsUndefined(0), JsBuffer(Digits9, 0)>>,
       <<JsBoolean(FALSE, 0), JsBuffer(Digits9, 0), JsNumber(<<45, 49>>, 0)>>,
       <<JsBoolean(FALSE, 0), JsBuffer(Digits9, 0),
         JsNumber(<<49, 46, 53>>, 0)>>,
       <<JsBoolean(TRUE, 0), JsBuffer(Digits9, 0),
         JsNumber(<<52, 50, 57, 52, 57, 54, 55, 50, 57, 54>>, 0)>>,
       <<JsBoolean(FALSE, 0), JsBuffer(Digits9, 0), JsString(<<48>>, 0)>>,
       <<JsBoolean(FALSE, 0), JsBuffer(Digits9, 0), JsUndefined(0)>>,
       <<JsBoolean(FALSE, 0), JsObject>>,
       <<JsBoolean(TRUE, 0), JsObject, JsUint32(Zero32, 0)>>,
       <<JsBoolean(FALSE, 0), JsBuffer(Digits9, 0), JsUint32(Zero32, 0),
         JsUint32(Zero32, 0)>>,
       <<JsBoolean(FALSE, 0), JsBuffer(Digits9, 0)>>,
       <<JsBoolean(FALSE, 0), JsBuffer(Digits9, 7)>>,
       <<JsBoolean(TRUE, 0), JsBuffer(Digits9, 0)>>,
       <<JsBoolean(FALSE, 0), JsBuffer(Digits9, 0), JsUint32(Zero32, 0)>>,
       <<JsBoolean(TRUE, 0), JsBuffer(Digits9, 0), JsUint32(Ones32, 0)>>,
       <<JsBoolean(FALSE, 0), JsString(Digits9, 4)>>,
       <<JsBoolean(TRUE, 0), JsString(Digits9, 4)>>,
       <<JsBoolean(FALSE, 0), JsBuffer(<<>>, 0)>>,
       <<JsBoolean(TRUE, 0), JsBuffer(<<>>, 0)>>,
       <<JsBoolean(FALSE, 0), JsString(<<>>, 0)>>,
       <<JsBoolean(FALSE, 0), JsNull(1)>>,
       <<JsBoolean(FALSE, 0), JsBoolean(TRUE, 2)>>,
       <<JsBoolean(FALSE, 0), JsUint32(<<210, 2, 150, 73>>, 6)>>,
       <<JsBoolean(FALSE, 0), JsNumber(<<45, 49>>, 0)>> >>

DispatchCall ==
    /\ \E n \in 1..Len(DispatchArgs) : calculateCrc(DispatchArgs[n])
    /\ UNCHANGED chain

NextDispatch ==
    isHardwareCrcSupported \/ DispatchCall \/ swCrc32cStep \/ Return

SpecDispatch == Init /\ [][NextDispatch]_vars

(***************************************************************************)
(* The process from its start: the addon is loaded, perhaps more than      *)
(* once, while calls are made through the methods already exported         *)
(***************************************************************************)
\* a call that runs the byte loop and the 8-byte loop, so that it reads all
\* eight slices of the table
LoadCall ==
    /\ calculateCrc(<<JsBoolean(FALSE, 0), JsBuffer(Digits9, 7)>>)
    /\ UNCHANGED chain

NextLoad ==
    \/ init
    \/ initCrcTableStep
    \/ initExports
    \/ LoadCall
    \/ swCrc32cStep
    \/ Return

SpecLoad == InitLoad /\ [][NextLoad]_vars

(***************************************************************************)
(* Properties                                                              *)
(***************************************************************************)
SwDone == pc = "done" /\ engine = "sw"

\* C1: on a host with hardware support the two engines agree: a finished
\* software call has returned what the hardware engine returns for the same
\* initial CRC and bytes, and a finished hardware call what the software
\* engine returns for them.
CrossPathEquivalence ==
    (pc = "done" /\ isSSE42Available(host)) =>
        /\ engine = "sw" => retval = hwCrc32c(initCrc, buf)
        /\ engine = "hw" =>
              retval = swCrc32c(initCrc, buf, addr, crc32cTable, host)

\* C1 witness: a software call with a non-zero initial CRC, on a host with
\* SSE 4.2, has run all three loops
CrossPathWitness ==
    /\ SwDone
    /\ isSSE42Available(host)
    /\ initCrc = Ones32
    /\ Len(buf) >= 12
    /\ addr = 5
    /\ buf[1] = 255

\* C2: the software engine returns 0xE3069283 for "123456789" with initial
\* CRC 0, at every alignment of the buffer.
KnownVector ==
    (SwDone /\ buf = Digits9 /\ initCrc = Zero32) =>
        retval = <<131, 146, 6, 227>>

\* C2 on the little-endian hosts only
KnownVectorLittleEndian == host.bigEndian \/ KnownVector

ChainingLaw ==
    (SwDone /\ chain.seg = 2) =>
        \A a \in 0..7 :
            retval = swCrc32c(Zero32, Slice(chain.pat, 0, chain.off) \o buf,
                              a, crc32cTable, host)

\* C4 on the little-endian hosts only
ChainingLawLittleEndian == host.bigEndian \/ ChainingLaw

\* the calls that C5 lists as invalid
InvalidCall(args) ==
    \/ Len(args) > 3
    \/ Len(args) < 2
    \/ ~IsBoolean(Arg(args, 0))
    \/ Len(args) > 2 /\ ~IsUint32(Arg(args, 2))
    \/ Arg(args, 1).type = "object"

\* C5: a call with invalid arguments throws the argument error, so that no
\* value reaches the caller, and invokes no engine.
InvalidArgsRejected ==
    (pc # "idle" /\ InvalidCall(info)) => (error # "" /\ engine = "none")

\* C6: the hardware engine is invoked only where SSE 4.2 is available, and a
\* call that asks for it before the caller has queried the support throws
\* instead of invoking it.
HwNeverBlind ==
    /\ engine = "hw" => isSSE42Available(host)
    /\ (pc # "idle" /\ IsBoolean(Arg(info, 0)) /\ Arg(info, 0).b
          /\ hwSupport = "unknown") => (error # "" /\ engine # "hw")

\* C7, in every state: a call is in progress only once the methods are
\* exported; when init() has returned the table is the fully built one; and a
\* software result is the one an uninterrupted run on the table gives.
TableReady ==
    /\ pc # "idle" => exported
    /\ (exported /\ ~loading /\ pc = "idle") => crc32cTable = BuiltTable
    /\ SwDone => retval = swCrc32c(initCrc, buf, addr, crc32cTable, host)

\* C7, in every step: once the methods are exported, a store of the
\* generator writes the value the entry already holds
TableReadOnly == exported => crc32cTable' = crc32cTable

\* C7: every read of the table by a call sees the one fully built table,
\* also while the generator runs again.
TableBuiltOnce == []TableReady /\ [][TableReadOnly]_vars

\* C7 witness: a further run of the generator is in its second loop while a
\* call is between two iterations of the 8-byte loop
TableRebuildWitness == exported /\ gen.loop = 2 /\ gen.i = 128 /\ pc = "bulk"

\* C8: for at least 8 bytes the software engine returns what it returns
\* when the 8-byte word is assembled in the other byte order.
ByteOrderIndependent ==
    (SwDone /\ Len(buf) >= 8) =>
        retval = swCrc32c(initCrc, buf, addr, crc32cTable,
                          [host EXCEPT !.bigEndian = ~host.bigEndian])

\* the byte-at-a-time fold of C9:
\* crc = table[0][(crc ^ byte) & 0xff] ^ (crc >> 8) for every byte
RECURSIVE BytewiseFold(_, _)
BytewiseFold(st, tbl) ==
    IF st.rest = <<>> THEN st.crc
    ELSE BytewiseFold(
            [crc |-> Xor32(tbl[0][XorByte(st.crc[1], Head(st.rest))],
                           <<st.crc[2], st.crc[3], st.crc[4], 0>>),
             rest |-> Tail(st.rest)], tbl)

ByteAtATime(initialCrc, data, tbl) ==
    Xor32(BytewiseFold([crc |-> Xor32(initialCrc, Ones32), rest |-> data],
                       tbl), Ones32)

\* C9: on a little-endian host the software engine returns, at every
\* alignment, the byte-at-a-time checksum of the bytes.
SlicingEqualsBytewise ==
    (SwDone /\ ~host.bigEndian) =>
        retval = ByteAtATime(initCrc, buf, crc32cTable)

\* C9 witness: two leading bytes, one 8-byte word and two trailing bytes
SlicingWitness ==
    /\ SwDone
    /\ ~host.bigEndian
    /\ addr = 6
    /\ Len(buf) = 12
    /\ reads = <<0, 1, 2, 3, 4, 5, 6, 7, 8, 9, 10, 11>>

\* C10, at every loop-iteration boundary of the software engine: the
\* accumulator is below 2^32, the indices of the latest iteration are in
\* 0..255, the bytes read are exactly the first next bytes of the buffer in
\* order, and next + len is the buffer's length; at the return no byte is
\* left and the value returned is the accumulator.
SwBoundary ==
    (engine = "sw" /\ pc \in {"lead", "bulk", "tail", "done"}) =>
        /\ Below(crc, 4)
        /\ \A k \in 1..Len(idx) : Below(idx[k], 1)
        /\ reads = [k \in 1..next |-> k - 1]
        /\ next + len = Len(buf)
        /\ pc = "done" => (len = 0 /\ retval = ToU32(crc))

\* C10: every iteration consumes at least one byte or is the return
SwProgress ==
    pc \in {"lead", "bulk", "tail"} => (pc' = "done" \/ len' < len)

\* C10: swCrc32c terminates having folded every byte once, in order, and
\* nothing else, with its accumulator and indices in range throughout.
SwFoldsAllBytes == []SwBoundary /\ [][SwProgress]_vars

\* C10 witness: a finished call that sign-extended a byte, with bytes before
\* and after the 8-byte word
SwFoldsWitness ==
    /\ SwDone
    /\ host.charSigned
    /\ addr = 7
    /\ Len(buf) = 12
    /\ buf[1] = 255

=============================================================================
